---- MODULE Spec2Model ----
(***************************************************************************)
(* A model of the beach shell and the storage engine (umbrella) behind it. *)
(*                                                                         *)
(*   SpecCache : the block cache of umbrella/src/cache.rs in front of a    *)
(*               block device (Cache::new/read/read_pointers/              *)
(*               write_pointers/write_all, mutation through SharedVec).    *)
(*   Spec      : the shell's builtins of beach/src/builtins.rs (newfs,     *)
(*               mount, unmount and the map commands) over the files of    *)
(*               the host, from a shell with nothing mounted.              *)
(*   SpecAlloc : the map commands alone, without bound on the number of    *)
(*               allocations, on a freshly formatted and mounted file      *)
(*               system.                                                   *)
(*   SpecParse : the argument parsers of beach/src/shell/expr/args/        *)
(*               parse2.rs run over the tokens of a command line.          *)
(***************************************************************************)
EXTENDS Integers, Sequences, FiniteSets, TLC

VARIABLES
    \* ---- umbrella/src/cache.rs ----
    device,     \* Cache.device: block number -> the bytes of that block
    entries,    \* Cache.entries: block number -> CacheEntry (or vacant)
    heap,       \* the Rc<RefCell<Vec<T>>> allocations: buffer id -> Vec<T>
    handles,    \* the SharedVec handles the callers hold
    epoch,      \* history: block number -> write_pointers calls made on it
    flushed,    \* history: block number -> the pointers write_all wrote there
    last,       \* history: the last Cache call and what it returned
    \* ---- beach/src/builtins.rs ----
    files,      \* the host's files: path -> what the file holds
    current_fs, \* Env.current_fs: the mounted FileSystem, if any
    out,        \* history: the last command and what it reported
    lastEnd,    \* history: path -> how the last session on the file ended
    clash,      \* history: path -> a session began there while one was live
    got,        \* history: block numbers alloc returned since the mount
    pure,       \* history: mounted freshly formatted, and no free since
    log,        \* history: the block commands since a fresh mount
    \* ---- beach/src/shell/expr/args/parse2.rs ----
    cur_args,   \* an Args value: the tokens of a command line and ptr
    parsed      \* history: the last parser run on it and what it returned

cacheVars == <<device, entries, heap, handles, epoch, flushed, last>>
shellVars == <<files, current_fs, out, lastEnd, clash, got, pure, log>>
parseVars == <<cur_args, parsed>>
vars == <<device, entries, heap, handles, epoch, flushed, last,
          files, current_fs, out, lastEnd, clash, got, pure, log,
          cur_args, parsed>>

----------------------------------------------------------------------------
(* Bounds of the model *)

\* Pointers held by one device block (block_size = PtrsPerBlock * ElemSize).
PtrsPerBlock == 2
\* Blocks of the device under the cache (device.config.block_count).
NumBlocks == 1
\* write_pointers calls made on one Cache.
MaxWrites == 1

\* mem::size_of::<T>() of a block number, in bytes: scaled down from the 8 of
\* a u64 so that every value of the type is an integer TLC can compute with.
ElemSize == 2

(* Program constants *)

\* One more than the largest u8.
ByteBase == 256

BlockSize == PtrsPerBlock * ElemSize

\* Block numbers the callers pass: NumBlocks is the first one out of range.
BlockNums == 0..NumBlocks
InRange(b) == b \in 0..(NumBlocks - 1)

\* Values the callers store through handles.
PtrVals == {7}
ByteVals == {7}

RECURSIVE SeqsOf(_, _)
SeqsOf(S, n) ==
    IF n = 0 THEN {<<>>}
    ELSE {Append(s, x) : s \in SeqsOf(S, n - 1), x \in S}

\* Pointer vectors passed to write_pointers: a full block of distinct values
\* whose bytes differ, and a vector one element short of a block.
PtrVecs ==
    {[i \in 1..PtrsPerBlock |-> 256 + i], [i \in 1..(PtrsPerBlock - 1) |-> 1]}

\* Indices the callers store at.
MutIdx == {1}

Zeros(n) == [i \in 1..n |-> 0]

\* No pointer vector (a vector p is recorded as <<p>>).
NoPointers == <<>>

----------------------------------------------------------------------------
(* to_u8 / from_u8: the memory of a Vec<T> seen as a Vec<u8> and back *)

\* The i-th byte (0-based, least significant first) of the value v.
RECURSIVE Pow(_, _)
Pow(x, n) == IF n = 0 THEN 1 ELSE x * Pow(x, n - 1)

ByteOf(v, i) == (v \div Pow(ByteBase, i)) % ByteBase

\* Position in memory (0-based) of the byte of significance i.
MemPos(e, i) == IF e = "little" THEN i ELSE ElemSize - 1 - i

\* The byte order of the build (x86-64: least significant byte first).
endian == "little"

\* to_u8: len * element_size bytes, each element laid out in memory order.
to_u8(e, v) ==
    [k \in 1..(Len(v) * ElemSize) |->
        LET el  == v[((k - 1) \div ElemSize) + 1]
            pos == (k - 1) % ElemSize
        IN  ByteOf(el, MemPos(e, pos))]

RECURSIVE ElemAt(_, _, _, _)
\* The value of the element whose bytes start after offset off: sum over
\* significance i..ElemSize-1.
ElemAt(e, bytes, off, i) ==
    IF i = ElemSize THEN 0
    ELSE bytes[off + MemPos(e, i) + 1] * Pow(ByteBase, i)
         + ElemAt(e, bytes, off, i + 1)

\* from_u8 as it would be if it put the bytes of an element together in the
\* opposite order to the one to_u8 lays them out in.
from_u8_Swapped(e, bytes) ==
    [k \in 1..(Len(bytes) \div ElemSize) |->
        ElemAt(IF e = "little" THEN "big" ELSE "little", bytes, (k - 1) * ElemSize, 0)]

\* from_u8 asserts that the length is a whole number of elements.
from_u8_ok(bytes) == Len(bytes) % ElemSize = 0

\* from_u8: len / element_size elements.
from_u8(e, bytes) ==
    [k \in 1..(Len(bytes) \div ElemSize) |->
        ElemAt(e, bytes, (k - 1) * ElemSize, 0)]

----------------------------------------------------------------------------
(* CacheEntry, SharedVec *)

Vacant == [tag |-> "Vacant", buf |-> 0]
BlockEntry(id) == [tag |-> "Block", buf |-> id]
PointersEntry(id) == [tag |-> "Pointers", buf |-> id]

Cached == {b \in BlockNums : entries[b].tag # "Vacant"}

\* CacheEntry::bytes: the byte image of an entry.
EntryBytes(e, h, entry) ==
    IF entry.tag = "Block" THEN h[entry.buf] ELSE to_u8(e, h[entry.buf])

\* SharedVec::new: the allocation made for block b after n write_pointers calls
\* on b (a Cache makes at most one: a miss fills a vacant entry once, before
\* any write_pointers; every write_pointers raises n).
NewBuf(b, n) == b * (MaxWrites + 1) + n + 1

\* History: the write_pointers calls made on block numbers 0..b of this Cache.
RECURSIVE Writes(_, _)
Writes(ep, b) == IF b < 0 THEN 0 ELSE ep[b] + Writes(ep, b - 1)

\* SharedVec::clone: one more handle on the same allocation.
Handle(b, kind, id) == [block |-> b, kind |-> kind, buf |-> id, epoch |-> epoch[b]]

\* Rc: an allocation lives as long as an entry or a handle holds it.
Live(h, ents, hs) ==
    LET held == {ents[b].buf : b \in BlockNums} \cup {x.buf : x \in hs}
    IN  [id \in (DOMAIN h) \cap held |-> h[id]]

\* History: what the last Cache call was, on which block number, what it
\* returned, the tag of that block's entry before it, whether it left the
\* entry map and the buffers as they were, the device blocks whose bytes it
\* changed, (write_all) the block numbers whose write succeeded, and
\* (write_pointers) the vector it was given.
NoCall == [op |-> "none", block |-> 0, res |-> "Ok", pre |-> "Vacant",
           kept |-> TRUE, touched |-> {}, written |-> {}, arg |-> NoPointers]
Ret(op, b, res, written) ==
    [op |-> op, block |-> b, res |-> res, pre |-> entries[b].tag,
     kept |-> (entries' = entries /\ heap' = heap),
     touched |-> {x \in DOMAIN device : device'[x] # device[x]},
     written |-> written, arg |-> NoPointers]

----------------------------------------------------------------------------
(* The block device under the cache *)

\* BlockDevice::read: the block, unless out of range or the storage fails.
DeviceReadOk(b, ioerr) == InRange(b) /\ ~ioerr

\* BlockDevice::write: the buffer must be one block, the number in range.
DeviceWriteOk(b, bytes, ioerr) ==
    InRange(b) /\ Len(bytes) = BlockSize /\ ~ioerr

----------------------------------------------------------------------------
(* Cache *)

CacheInit ==
    /\ device = [b \in 0..(NumBlocks - 1) |-> Zeros(BlockSize)]
    /\ entries = [b \in BlockNums |-> Vacant]
    /\ heap = <<>>
    /\ handles = {}
    /\ epoch = [b \in BlockNums |-> 0]
    /\ flushed = [b \in 0..(NumBlocks - 1) |-> NoPointers]
    /\ last = NoCall

\* Cache::new on the device of a cache that is dropped with its handles.
CacheNew ==
    /\ Cached # {}
    /\ entries' = [b \in BlockNums |-> Vacant]
    /\ heap' = <<>>
    /\ handles' = {}
    /\ epoch' = [b \in BlockNums |-> 0]
    /\ UNCHANGED <<device, flushed>>
    /\ last' = [NoCall EXCEPT !.op = "new", !.kept = FALSE]

\* Cache::read as it would be if a Pointers entry were handed out as bytes:
\* the entry is re-tagged Block over the byte image of the pointers.
Read_Reinterpret(b, ioerr) ==
    /\ UNCHANGED <<device, epoch, flushed>>
    /\ IF entries[b].tag = "Block" THEN
            /\ handles' = handles \cup {Handle(b, "Block", entries[b].buf)}
            /\ UNCHANGED <<entries, heap>>
            /\ last' = Ret("read", b, "Ok", {})
       ELSE IF entries[b].tag = "Pointers" THEN
            LET id == entries[b].buf IN
            /\ heap' = [heap EXCEPT ![id] = EntryBytes(endian, heap, entries[b])]
            /\ entries' = [entries EXCEPT ![b] = BlockEntry(id)]
            /\ handles' = handles \cup {Handle(b, "Block", id)}
            /\ last' = Ret("read", b, "Ok", {})
       ELSE IF ~DeviceReadOk(b, ioerr) THEN
            /\ UNCHANGED <<entries, heap, handles>>
            /\ last' = Ret("read", b, "DeviceError", {})
       ELSE LET id == NewBuf(b, epoch[b]) IN
            /\ heap' = heap @@ (id :> device[b])
            /\ entries' = [entries EXCEPT ![b] = BlockEntry(id)]
            /\ handles' = handles \cup {Handle(b, "Block", id)}
            /\ last' = Ret("read", b, "Ok", {})

\* Cache::read as it would be if a hit returned a copy of the block
\* (SharedVec::new(block.borrow().clone())) instead of block.clone().
Read_CopyOnHit(b, ioerr) ==
    /\ UNCHANGED <<device, epoch, flushed>>
    /\ IF entries[b].tag = "Block" THEN
            LET id == 0 - entries[b].buf IN
            /\ heap' = [x \in (DOMAIN heap) \cup {id} |->
                           IF x = id THEN heap[entries[b].buf] ELSE heap[x]]
            /\ handles' = handles \cup {Handle(b, "Block", id)}
            /\ UNCHANGED entries
            /\ last' = Ret("read", b, "Ok", {})
       ELSE IF entries[b].tag = "Pointers" THEN
            /\ UNCHANGED <<entries, heap, handles>>
            /\ last' = Ret("read", b, "CacheInvalid", {})
       ELSE IF ~DeviceReadOk(b, ioerr) THEN
            /\ UNCHANGED <<entries, heap, handles>>
            /\ last' = Ret("read", b, "DeviceError", {})
       ELSE LET id == NewBuf(b, epoch[b]) IN
            /\ heap' = heap @@ (id :> device[b])
            /\ entries' = [entries EXCEPT ![b] = BlockEntry(id)]
            /\ handles' = handles \cup {Handle(b, "Block", id)}
            /\ last' = Ret("read", b, "Ok", {})

\* Cache::read as it would be if the zero-filled buffer were inserted before
\* the device is read (v.insert(..) ahead of device.read(..)?).
Read_InsertFirst(b, ioerr) ==
    /\ UNCHANGED <<device, epoch, flushed>>
    /\ IF entries[b].tag = "Block" THEN
            /\ handles' = handles \cup {Handle(b, "Block", entries[b].buf)}
            /\ UNCHANGED <<entries, heap>>
            /\ last' = Ret("read", b, "Ok", {})
       ELSE IF entries[b].tag = "Pointers" THEN
            /\ UNCHANGED <<entries, heap, handles>>
            /\ last' = Ret("read", b, "CacheInvalid", {})
       ELSE IF ~DeviceReadOk(b, ioerr) THEN
            LET id == NewBuf(b, epoch[b]) IN
            /\ heap' = heap @@ (id :> Zeros(BlockSize))
            /\ entries' = [entries EXCEPT ![b] = BlockEntry(id)]
            /\ UNCHANGED handles
            /\ last' = Ret("read", b, "DeviceError", {})
       ELSE LET id == NewBuf(b, epoch[b]) IN
            /\ heap' = heap @@ (id :> device[b])
            /\ entries' = [entries EXCEPT ![b] = BlockEntry(id)]
            /\ handles' = handles \cup {Handle(b, "Block", id)}
            /\ last' = Ret("read", b, "Ok", {})

\* Cache::read
Read(b, ioerr) ==
    /\ UNCHANGED <<device, epoch, flushed>>
    /\ IF entries[b].tag = "Block" THEN
            /\ handles' = handles \cup {Handle(b, "Block", entries[b].buf)}
            /\ UNCHANGED <<entries, heap>>
            /\ last' = Ret("read", b, "Ok", {})
       ELSE IF entries[b].tag = "Pointers" THEN
            /\ UNCHANGED <<entries, heap, handles>>
            /\ last' = Ret("read", b, "CacheInvalid", {})
       ELSE IF ~DeviceReadOk(b, ioerr) THEN
            /\ UNCHANGED <<entries, heap, handles>>
            /\ last' = Ret("read", b, "DeviceError", {})
       ELSE LET id == NewBuf(b, epoch[b]) IN
            /\ heap' = heap @@ (id :> device[b])
            /\ entries' = [entries EXCEPT ![b] = BlockEntry(id)]
            /\ handles' = handles \cup {Handle(b, "Block", id)}
            /\ last' = Ret("read", b, "Ok", {})

\* Cache::read_pointers
ReadPointers(b, ioerr) ==
    /\ UNCHANGED <<device, epoch, flushed>>
    /\ IF entries[b].tag = "Block" THEN
            /\ UNCHANGED <<entries, heap, handles>>
            /\ last' = Ret("read_pointers", b, "CacheInvalid", {})
       ELSE IF entries[b].tag = "Pointers" THEN
            /\ handles' = handles \cup {Handle(b, "Pointers", entries[b].buf)}
            /\ UNCHANGED <<entries, heap>>
            /\ last' = Ret("read_pointers", b, "Ok", {})
       ELSE IF ~DeviceReadOk(b, ioerr) THEN
            /\ UNCHANGED <<entries, heap, handles>>
            /\ last' = Ret("read_pointers", b, "DeviceError", {})
       ELSE LET id == NewBuf(b, epoch[b]) IN
            /\ from_u8_ok(device[b])       \* assert_eq!: a panic otherwise
            /\ heap' = heap @@ (id :> from_u8(endian, device[b]))
            /\ entries' = [entries EXCEPT ![b] = PointersEntry(id)]
            /\ handles' = handles \cup {Handle(b, "Pointers", id)}
            /\ last' = Ret("read_pointers", b, "Ok", {})

\* Cache::write_pointers as it would be if it stored the vector into the
\* buffer of a Pointers entry that is there (*pointers.borrow_mut() = ps).
WritePointers_InPlace(b, pointers) ==
    /\ Writes(epoch, NumBlocks) < MaxWrites
    /\ LET id   == IF entries[b].tag = "Pointers" THEN entries[b].buf
                   ELSE NewBuf(b, epoch[b] + 1)
           ents == [entries EXCEPT ![b] = PointersEntry(id)]
       IN  /\ entries' = ents
           /\ heap' = Live([x \in (DOMAIN heap) \cup {id} |->
                               IF x = id THEN pointers ELSE heap[x]],
                           ents, handles)
    /\ epoch' = [epoch EXCEPT ![b] = @ + 1]
    /\ UNCHANGED <<device, handles, flushed>>
    /\ last' = [Ret("write_pointers", b, "Ok", {}) EXCEPT !.arg = <<pointers>>]

\* Cache::write_pointers as it would be if it kept an entry that is there
\* (entries.entry(block_num).or_insert(ps)).
WritePointers_OrInsert(b, pointers) ==
    /\ Writes(epoch, NumBlocks) < MaxWrites
    /\ LET id   == NewBuf(b, epoch[b] + 1)
           ents == IF entries[b].tag = "Vacant"
                   THEN [entries EXCEPT ![b] = PointersEntry(id)]
                   ELSE entries
       IN  /\ entries' = ents
           /\ heap' = Live(heap @@ (id :> pointers), ents, handles)
    /\ epoch' = [epoch EXCEPT ![b] = @ + 1]
    /\ UNCHANGED <<device, handles, flushed>>
    /\ last' = [Ret("write_pointers", b, "Ok", {}) EXCEPT !.arg = <<pointers>>]

\* Cache::write_pointers
WritePointers(b, pointers) ==
    /\ Writes(epoch, NumBlocks) < MaxWrites
    /\ LET id   == NewBuf(b, epoch[b] + 1)
           ents == [entries EXCEPT ![b] = PointersEntry(id)]
       IN  /\ entries' = ents
           /\ heap' = Live(heap @@ (id :> pointers), ents, handles)
    /\ epoch' = [epoch EXCEPT ![b] = @ + 1]
    /\ UNCHANGED <<device, handles, flushed>>
    /\ last' = [Ret("write_pointers", b, "Ok", {}) EXCEPT !.arg = <<pointers>>]

\* A caller stores v at index i through a handle (SharedVec::borrow_mut).
Mutate(h, i, v) ==
    /\ i \in 1..Len(heap[h.buf])
    /\ heap[h.buf][i] # v
    /\ heap' = [heap EXCEPT ![h.buf][i] = v]
    /\ UNCHANGED <<device, entries, handles, epoch, flushed>>
    /\ last' = Ret("mutate", h.block, "Ok", {})

RECURSIVE WriteLoop_Skip(_, _, _, _)
\* The loop of Cache::write_all as it would be if a failed write were dropped
\* (let _ = device.write(..)) and the loop went on to the next entry.
WriteLoop_Skip(order, dev, done, bad) ==
    IF order = <<>> THEN [res |-> "Ok", device |-> dev, written |-> done]
    ELSE LET b     == Head(order)
             bytes == EntryBytes(endian, heap, entries[b])
         IN  IF DeviceWriteOk(b, bytes, b = bad)
             THEN WriteLoop_Skip(Tail(order), [dev EXCEPT ![b] = bytes],
                                 done \cup {b}, bad)
             ELSE WriteLoop_Skip(Tail(order), dev, done, bad)

RECURSIVE WriteLoop(_, _, _, _)
\* The loop of Cache::write_all over the entries in the order `order`: each
\* entry's bytes() go to the device and the first error ends the loop ("?").
WriteLoop(order, dev, done, bad) ==
    IF order = <<>> THEN [res |-> "Ok", device |-> dev, written |-> done]
    ELSE LET b     == Head(order)
             bytes == EntryBytes(endian, heap, entries[b])
         IN  IF DeviceWriteOk(b, bytes, b = bad)
             THEN WriteLoop(Tail(order), [dev EXCEPT ![b] = bytes],
                            done \cup {b}, bad)
             ELSE [res |-> "DeviceError", device |-> dev, written |-> done]

\* The orders in which a HashMap may yield the keys S.
Orders(S) ==
    {s \in SeqsOf(S, Cardinality(S)) : \A x \in S : \E i \in DOMAIN s : s[i] = x}

\* History: the pointer vector that write_all put in device block b, if the
\* last image written there was that of a Pointers entry.
Flushed(written) ==
    [b \in DOMAIN flushed |->
        IF b \notin written THEN flushed[b]
        ELSE IF entries[b].tag = "Pointers" THEN <<heap[entries[b].buf]>>
        ELSE NoPointers]

\* Cache::write_all as it would be if it emptied the entry map once every
\* entry is written (entries.drain()).
WriteAll_Drain(order, bad) ==
    /\ Cached # {}
    /\ LET r    == WriteLoop(order, device, {}, bad)
           ents == IF r.res = "Ok" THEN [b \in BlockNums |-> Vacant] ELSE entries
       IN  /\ device' = r.device
           /\ flushed' = Flushed(r.written)
           /\ entries' = ents
           /\ heap' = Live(heap, ents, handles)
           /\ UNCHANGED <<handles, epoch>>
           /\ last' = Ret("write_all", 0, r.res, r.written)

\* Cache::write_all; the storage fails at block `bad` (NumBlocks + 1: nowhere).
WriteAll(order, bad) ==
    /\ Cached # {}
    /\ LET r == WriteLoop(order, device, {}, bad)
       IN  /\ device' = r.device
           /\ flushed' = Flushed(r.written)
           /\ UNCHANGED <<entries, heap, handles, epoch>>
           /\ last' = Ret("write_all", 0, r.res, r.written)

\* Whether the storage fails under a read of b: it is only asked on a miss.
IoErrs(b) == IF entries[b].tag = "Vacant" /\ InRange(b) THEN BOOLEAN ELSE {FALSE}

----------------------------------------------------------------------------
(* The storage engine behind the shell: BlockDevice, BlockMap, INodeMap,   *)
(* FileSystem (umbrella::device, umbrella::fs)                             *)

\* Slots of the INodeMap.
NumINodes == 2
\* Block commands recorded in the history of a freshly mounted file system.
MaxLog == 5

\* The least block size and block count new_fs accepts.
MinBlockSize == 128
MinBlockCount == 128

\* The block size BlockDevice::create takes when none is given.
DefaultBlockSize == 512

Paths == {"f", "g"}

Min(S) == CHOOSE x \in S : \A y \in S : x <= y
CeilDiv(a, b) == (a + b - 1) \div b

\* The blocks a format reserves: the superblock, the BlockMap (a bit a block),
\* the INodeMap (a bit and a flags byte a slot).
FirstData(bc, bs) ==
    1 + CeilDiv(bc, 8 * bs) + CeilDiv(CeilDiv(NumINodes, 8) + NumINodes, bs)
Reserved(bc, bs) == 0..(FirstData(bc, bs) - 1)

FreeSlot == [used |-> FALSE, flags |-> 0]
INodes == 0..(NumINodes - 1)

\* BlockMap::alloc: the lowest clear bit, set; or AllocError::Exhausted.
BlockMapAlloc(bm, bc) ==
    LET free == (0..(bc - 1)) \ bm
    IN  IF free = {} THEN [ok |-> FALSE, n |-> 0, map |-> bm]
        ELSE [ok |-> TRUE, n |-> Min(free), map |-> bm \cup {Min(free)}]

\* BlockMap::free: the bit cleared.
BlockMapFree(bm, n) == bm \ {n}

\* INodeMap::alloc: the lowest free slot, taken with the flags; or None.
INodeMapAlloc(im, flags) ==
    LET free == {i \in DOMAIN im : ~im[i].used}
    IN  IF free = {} THEN [ok |-> FALSE, n |-> 0, map |-> im]
        ELSE [ok |-> TRUE, n |-> Min(free),
              map |-> [im EXCEPT ![Min(free)] = [used |-> TRUE, flags |-> flags]]]

\* INodeMap::free: the bit and the flags cleared.
INodeMapFree(im, n) == [im EXCEPT ![n] = FreeSlot]

\* What a file of the host holds: nothing (no such file), a device that holds
\* no file system, or a file system image.
NoFile == [kind |-> "none", block_count |-> 0, block_size |-> 0,
           clean |-> FALSE, bmap |-> {}, imap |-> <<>>]
Blank(bc, bs) == [kind |-> "blank", block_count |-> bc, block_size |-> bs,
                  clean |-> FALSE, bmap |-> {}, imap |-> <<>>]
Image(fs, clean) == [kind |-> "fs", block_count |-> fs.block_count,
                     block_size |-> fs.block_size, clean |-> clean,
                     bmap |-> fs.bmap, imap |-> fs.imap]

\* Option<FileSystem>::None
NoFs == [mounted |-> FALSE, path |-> "", block_count |-> 0, block_size |-> 0,
         bmap |-> {}, imap |-> <<>>]

\* FileSystem::new: empty maps with the reserved blocks taken; the superblock
\* goes to the device at once, not yet marked clean.
FsNew(p, bc, bs) ==
    [mounted |-> TRUE, path |-> p, block_count |-> bc, block_size |-> bs,
     bmap |-> Reserved(bc, bs), imap |-> [i \in INodes |-> FreeSlot]]

\* FileSystem::read: the maps as persisted (Mount.clean_mount is img.clean);
\* the device is marked not clean for the session that begins.
FsRead(p, img) ==
    [mounted |-> TRUE, path |-> p, block_count |-> img.block_count,
     block_size |-> img.block_size, bmap |-> img.bmap, imap |-> img.imap]

\* FileSystem::close: the cache is flushed, then the clean marker written.
\* A failed flush leaves the device as it was, a failed marker leaves it
\* flushed and not clean.
FsClose(fs, onDisk, closing) ==
    IF closing = "ok" THEN [ok |-> TRUE, image |-> Image(fs, TRUE)]
    ELSE IF closing = "flush_fails" THEN [ok |-> FALSE, image |-> onDisk]
    ELSE [ok |-> FALSE, image |-> Image(fs, FALSE)]

Closings == {"ok", "flush_fails", "mark_fails"}

Fresh(fs) ==
    /\ fs.bmap = Reserved(fs.block_count, fs.block_size)
    /\ \A i \in DOMAIN fs.imap : ~fs.imap[i].used

----------------------------------------------------------------------------
(* beach/src/builtins.rs *)

\* History: what the last command was and what it reported (res: "ok",
\* "usage" for arguments that do not parse, "nofs" for NO_MOUNT_MSG, "error",
\* "rejected" for a geometry below the minimum, "warning", "exhausted"), the number it printed, whether it left the files
\* and the mounted file system as they were, whether a file system was mounted
\* before it, whether its arguments parsed; for mount, clean_mount, how the
\* last session on the file had ended, whether it ran alone, and whether the
\* mount took the place of a file system whose maps were not on its file; for an
\* allocation, whether the map was full and whether the number had been
\* returned before.
NoOut == [cmd |-> "none", res |-> "ok", n |-> 0, kept |-> TRUE, had |-> FALSE,
          parsed |-> TRUE, clean |-> FALSE, prev |-> "none", judged |-> FALSE,
          lost |-> FALSE, full |-> FALSE, dup |-> FALSE]
Rep(cmd, res, n) ==
    [NoOut EXCEPT !.cmd = cmd, !.res = res, !.n = n,
                  !.kept = (files' = files /\ current_fs' = current_fs),
                  !.had = current_fs.mounted]

\* parse_explain with arguments that do not parse: the explanation is printed
\* and the command's closure does not run.
Explain(cmd) == [Rep(cmd, "usage", 0) EXCEPT !.parsed = FALSE]

Overflow == <<"overflow">>
Logged(e) ==
    IF log = Overflow \/ Len(log) >= MaxLog THEN Overflow ELSE Append(log, e)

\* Arguments as the Hlist parser yields them; ok = FALSE: they do not parse
\* and parse_explain does not run the command's closure.
NoArg == 0 - 1
BlockCounts == {MinBlockCount - 1, MinBlockCount}
BlockSizeArgs == {NoArg, MinBlockSize - 1}
NewFsArgs ==
    {[ok |-> TRUE, file_name |-> p, block_count |-> bc, block_size |-> bs] :
        p \in Paths, bc \in BlockCounts, bs \in BlockSizeArgs}
    \cup {[ok |-> FALSE, file_name |-> "", block_count |-> 0, block_size |-> 0]}
PathArgs ==
    {[ok |-> TRUE, file_name |-> p] : p \in Paths}
        \cup {[ok |-> FALSE, file_name |-> ""]}
NumArgs(S) == {[ok |-> TRUE, n |-> x] : x \in S} \cup {[ok |-> FALSE, n |-> 0]}
FreeBlockNums == {0, FirstData(MinBlockCount, DefaultBlockSize) + 1}
INodeFlagVals == {1, 2}

\* Env::new
EnvNew ==
    /\ current_fs = NoFs
    /\ out = NoOut
    /\ got = {}
    /\ pure = FALSE
    /\ log = Overflow

ShellInit ==
    /\ EnvNew
    /\ files = [p \in Paths |-> NoFile]
    /\ lastEnd = [p \in Paths |-> "none"]
    /\ clash = [p \in Paths |-> FALSE]

MountedOn(p) == current_fs.mounted /\ current_fs.path = p

\* A mounted file system whose maps are not what its file holds.
Unsaved(fs) ==
    /\ fs.mounted
    /\ \/ files[fs.path].bmap # fs.bmap
       \/ files[fs.path].imap # fs.imap

\* new_fs
NewFs(args, createOk, closing) ==
    /\ UNCHANGED <<current_fs, got, pure, log>>
    /\ IF ~args.ok THEN
            /\ UNCHANGED <<files, lastEnd, clash>>
            /\ out' = Explain("newfs")
       ELSE IF ~createOk THEN
            /\ UNCHANGED <<files, lastEnd, clash>>
            /\ out' = Rep("newfs", "error", 0)
       ELSE LET p  == args.file_name
                bc == args.block_count
                bs == IF args.block_size = NoArg THEN DefaultBlockSize
                      ELSE args.block_size
            IN  IF bs < MinBlockSize \/ bc < MinBlockCount THEN
                    /\ files' = [files EXCEPT ![p] = Blank(bc, bs)]
                    /\ UNCHANGED <<lastEnd, clash>>
                    /\ out' = Rep("newfs", "rejected", 0)
                ELSE LET newfs == FsNew(p, bc, bs)
                         r     == FsClose(newfs, Image(newfs, FALSE), closing)
                     IN  /\ files' = [files EXCEPT ![p] = r.image]
                         /\ lastEnd' = [lastEnd EXCEPT ![p] =
                                IF r.ok THEN "closed" ELSE "notclosed"]
                         /\ clash' = [clash EXCEPT ![p] = MountedOn(p)]
                         /\ out' = Rep("newfs", IF r.ok THEN "ok" ELSE "error", 0)

\* mount, were the device left marked clean while mounted.
Mount_NoDirtyMark(args, io) ==
    IF ~args.ok THEN
        /\ UNCHANGED <<files, current_fs, lastEnd, clash, got, pure, log>>
        /\ out' = Explain("mount")
    ELSE IF \/ files[args.file_name].kind = "none"
            \/ io = "open_fails"
            \/ io = "read_fails"
            \/ files[args.file_name].kind # "fs" THEN
        /\ UNCHANGED <<files, current_fs, lastEnd, clash, got, pure, log>>
        /\ out' = Rep("mount", "error", 0)
    ELSE LET p   == args.file_name
             img == files[p]
             fs  == FsRead(p, img)
         IN  /\ files' = files
             /\ current_fs' = fs
             /\ lastEnd' = IF current_fs.mounted
                           THEN [lastEnd EXCEPT ![current_fs.path] = "notclosed"]
                           ELSE lastEnd
             /\ clash' = [clash EXCEPT ![p] = MountedOn(p)]
             /\ got' = {}
             /\ pure' = Fresh(fs)
             /\ log' = IF Fresh(fs) THEN <<>> ELSE Overflow
             /\ out' = [Rep("mount", IF img.clean THEN "ok" ELSE "warning", 0)
                          EXCEPT !.clean = img.clean, !.prev = lastEnd[p],
                                 !.judged = ~MountedOn(p) /\ ~clash[p],
                                 !.lost = Unsaved(current_fs)]

\* mount, were it to close the file system it takes the place of.
Mount_CloseOld(args, io) ==
    IF ~args.ok THEN
        /\ UNCHANGED <<files, current_fs, lastEnd, clash, got, pure, log>>
        /\ out' = Explain("mount")
    ELSE IF \/ files[args.file_name].kind = "none"
            \/ io = "open_fails"
            \/ io = "read_fails"
            \/ files[args.file_name].kind # "fs" THEN
        /\ UNCHANGED <<files, current_fs, lastEnd, clash, got, pure, log>>
        /\ out' = Rep("mount", "error", 0)
    ELSE LET p   == args.file_name
             img == files[p]
             fs  == FsRead(p, img)
         IN  /\ files' = [q \in Paths |->
                    IF q = p THEN [img EXCEPT !.clean = FALSE]
                    ELSE IF MountedOn(q) THEN Image(current_fs, TRUE)
                    ELSE files[q]]
             /\ current_fs' = fs
             /\ lastEnd' = IF current_fs.mounted
                           THEN [lastEnd EXCEPT ![current_fs.path] = "closed"]
                           ELSE lastEnd
             /\ clash' = [clash EXCEPT ![p] = MountedOn(p)]
             /\ got' = {}
             /\ pure' = Fresh(fs)
             /\ log' = IF Fresh(fs) THEN <<>> ELSE Overflow
             /\ out' = [Rep("mount", IF img.clean THEN "ok" ELSE "warning", 0)
                          EXCEPT !.clean = img.clean, !.prev = lastEnd[p],
                                 !.judged = ~MountedOn(p) /\ ~clash[p],
                                 !.lost = Unsaved(current_fs)]

\* mount
Mount(args, io) ==
    IF ~args.ok THEN
        /\ UNCHANGED <<files, current_fs, lastEnd, clash, got, pure, log>>
        /\ out' = Explain("mount")
    ELSE IF \/ files[args.file_name].kind = "none"
            \/ io = "open_fails"
            \/ io = "read_fails"
            \/ files[args.file_name].kind # "fs" THEN
        /\ UNCHANGED <<files, current_fs, lastEnd, clash, got, pure, log>>
        /\ out' = Rep("mount", "error", 0)
    ELSE LET p   == args.file_name
             img == files[p]
             fs  == FsRead(p, img)
         IN  /\ files' = [files EXCEPT ![p].clean = FALSE]
             /\ current_fs' = fs
             /\ lastEnd' = IF current_fs.mounted
                           THEN [lastEnd EXCEPT ![current_fs.path] = "notclosed"]
                           ELSE lastEnd
             /\ clash' = [clash EXCEPT ![p] = MountedOn(p)]
             /\ got' = {}
             /\ pure' = Fresh(fs)
             /\ log' = IF Fresh(fs) THEN <<>> ELSE Overflow
             /\ out' = [Rep("mount", IF img.clean THEN "ok" ELSE "warning", 0)
                          EXCEPT !.clean = img.clean, !.prev = lastEnd[p],
                                 !.judged = ~MountedOn(p) /\ ~clash[p],
                                 !.lost = Unsaved(current_fs)]

\* unmount, were it to go through with_fs and leave current_fs in place.
Unmount_KeepFs(closing) ==
    IF ~current_fs.mounted THEN
        /\ UNCHANGED <<files, current_fs, lastEnd, clash, got, pure, log>>
        /\ out' = Rep("unmount", "nofs", 0)
    ELSE LET fs == current_fs
             r  == FsClose(fs, files[fs.path], closing)
         IN  /\ current_fs' = current_fs
             /\ files' = [files EXCEPT ![fs.path] = r.image]
             /\ lastEnd' = [lastEnd EXCEPT ![fs.path] =
                    IF r.ok THEN "closed" ELSE "notclosed"]
             /\ UNCHANGED clash
             /\ got' = {}
             /\ pure' = FALSE
             /\ log' = Overflow
             /\ out' = Rep("unmount", IF r.ok THEN "ok" ELSE "error", 0)

\* unmount
Unmount(closing) ==
    IF ~current_fs.mounted THEN
        /\ UNCHANGED <<files, current_fs, lastEnd, clash, got, pure, log>>
        /\ out' = Rep("unmount", "nofs", 0)
    ELSE LET fs == current_fs
             r  == FsClose(fs, files[fs.path], closing)
         IN  /\ current_fs' = NoFs
             /\ files' = [files EXCEPT ![fs.path] = r.image]
             /\ lastEnd' = [lastEnd EXCEPT ![fs.path] =
                    IF r.ok THEN "closed" ELSE "notclosed"]
             /\ UNCHANGED clash
             /\ got' = {}
             /\ pure' = FALSE
             /\ log' = Overflow
             /\ out' = Rep("unmount", IF r.ok THEN "ok" ELSE "error", 0)

\* block_map
BlockMapCmd ==
    /\ UNCHANGED <<files, current_fs, lastEnd, clash, got, pure, log>>
    /\ out' = IF current_fs.mounted
              THEN Rep("block_map", "ok", Cardinality(current_fs.bmap))
              ELSE Rep("block_map", "nofs", 0)

\* alloc_block, were the closure to run on a copy of the file system.
AllocBlock_OnCopy ==
    /\ UNCHANGED <<files, lastEnd, clash, pure>>
    /\ IF ~current_fs.mounted THEN
            /\ UNCHANGED <<current_fs, got, log>>
            /\ out' = Rep("alloc_block", "nofs", 0)
       ELSE LET r == BlockMapAlloc(current_fs.bmap, current_fs.block_count)
            IN  /\ current_fs' = current_fs
                /\ got' = IF pure /\ r.ok THEN got \cup {r.n} ELSE got
                /\ log' = IF r.ok THEN Logged(<<"alloc", r.n>>) ELSE log
                /\ out' = [Rep("alloc_block",
                               IF r.ok THEN "ok" ELSE "exhausted", r.n)
                             EXCEPT !.full = (current_fs.bmap =
                                                0..(current_fs.block_count - 1)),
                                    !.dup = r.ok /\ r.n \in got]

\* alloc_block, were the result of alloc unwrapped.
AllocBlock_Unwrap ==
    /\ UNCHANGED <<files, lastEnd, clash, pure>>
    /\ IF ~current_fs.mounted THEN
            /\ UNCHANGED <<current_fs, got, log>>
            /\ out' = Rep("alloc_block", "nofs", 0)
       ELSE LET r == BlockMapAlloc(current_fs.bmap, current_fs.block_count)
            IN  /\ current_fs' = [current_fs EXCEPT !.bmap = r.map]
                /\ got' = IF pure /\ r.ok THEN got \cup {r.n} ELSE got
                /\ log' = IF r.ok THEN Logged(<<"alloc", r.n>>) ELSE log
                /\ out' = [Rep("alloc_block",
                               IF r.ok THEN "ok" ELSE "abort", r.n)
                             EXCEPT !.full = (current_fs.bmap =
                                                0..(current_fs.block_count - 1)),
                                    !.dup = r.ok /\ r.n \in got]

\* alloc_block
AllocBlock ==
    /\ UNCHANGED <<files, lastEnd, clash, pure>>
    /\ IF ~current_fs.mounted THEN
            /\ UNCHANGED <<current_fs, got, log>>
            /\ out' = Rep("alloc_block", "nofs", 0)
       ELSE LET r == BlockMapAlloc(current_fs.bmap, current_fs.block_count)
            IN  /\ current_fs' = [current_fs EXCEPT !.bmap = r.map]
                /\ got' = IF pure /\ r.ok THEN got \cup {r.n} ELSE got
                /\ log' = IF r.ok THEN Logged(<<"alloc", r.n>>) ELSE log
                /\ out' = [Rep("alloc_block",
                               IF r.ok THEN "ok" ELSE "exhausted", r.n)
                             EXCEPT !.full = (current_fs.bmap =
                                                0..(current_fs.block_count - 1)),
                                    !.dup = r.ok /\ r.n \in got]

\* free_block, were the number taken one-based.
FreeBlock_OffByOne(arg) ==
    /\ UNCHANGED <<files, lastEnd, clash>>
    /\ IF ~arg.ok THEN
            /\ UNCHANGED <<current_fs, got, pure, log>>
            /\ out' = Explain("free_block")
       ELSE IF ~current_fs.mounted THEN
            /\ UNCHANGED <<current_fs, got, pure, log>>
            /\ out' = Rep("free_block", "nofs", 0)
       ELSE /\ current_fs' = [current_fs EXCEPT !.bmap = BlockMapFree(@, arg.n + 1)]
            /\ got' = {}
            /\ pure' = FALSE
            /\ log' = Logged(<<"free", arg.n>>)
            /\ out' = Rep("free_block", "ok", arg.n)

\* free_block
FreeBlock(arg) ==
    /\ UNCHANGED <<files, lastEnd, clash>>
    /\ IF ~arg.ok THEN
            /\ UNCHANGED <<current_fs, got, pure, log>>
            /\ out' = Explain("free_block")
       ELSE IF ~current_fs.mounted THEN
            /\ UNCHANGED <<current_fs, got, pure, log>>
            /\ out' = Rep("free_block", "nofs", 0)
       ELSE /\ current_fs' = [current_fs EXCEPT !.bmap = BlockMapFree(@, arg.n)]
            /\ got' = {}
            /\ pure' = FALSE
            /\ log' = Logged(<<"free", arg.n>>)
            /\ out' = Rep("free_block", "ok", arg.n)

\* inode_map
INodeMapCmd ==
    /\ UNCHANGED <<files, current_fs, lastEnd, clash, got, pure, log>>
    /\ out' = IF current_fs.mounted
              THEN Rep("inode_map", "ok",
                       Cardinality({i \in INodes : current_fs.imap[i].used}))
              ELSE Rep("inode_map", "nofs", 0)

\* alloc_inode
AllocInode(arg) ==
    /\ UNCHANGED <<files, lastEnd, clash, got, pure, log>>
    /\ IF ~arg.ok THEN
            /\ UNCHANGED current_fs
            /\ out' = Explain("alloc_inode")
       ELSE IF ~current_fs.mounted THEN
            /\ UNCHANGED current_fs
            /\ out' = Rep("alloc_inode", "nofs", 0)
       ELSE LET r == INodeMapAlloc(current_fs.imap, arg.n)
            IN  /\ current_fs' = [current_fs EXCEPT !.imap = r.map]
                /\ out' = [Rep("alloc_inode",
                               IF r.ok THEN "ok" ELSE "exhausted", r.n)
                             EXCEPT !.full = (\A i \in INodes :
                                                current_fs.imap[i].used)]

\* free_inode, were it to free in the block map.
FreeInode_BlockMap(arg) ==
    /\ UNCHANGED <<files, lastEnd, clash, got, pure, log>>
    /\ IF ~arg.ok THEN
            /\ UNCHANGED current_fs
            /\ out' = Explain("free_inode")
       ELSE IF ~current_fs.mounted THEN
            /\ UNCHANGED current_fs
            /\ out' = Rep("free_inode", "nofs", 0)
       ELSE /\ current_fs' = [current_fs EXCEPT !.bmap = BlockMapFree(@, arg.n)]
            /\ out' = Rep("free_inode", "ok", arg.n)

\* free_inode
FreeInode(arg) ==
    /\ UNCHANGED <<files, lastEnd, clash, got, pure, log>>
    /\ IF ~arg.ok THEN
            /\ UNCHANGED current_fs
            /\ out' = Explain("free_inode")
       ELSE IF ~current_fs.mounted THEN
            /\ UNCHANGED current_fs
            /\ out' = Rep("free_inode", "nofs", 0)
       ELSE /\ current_fs' = [current_fs EXCEPT !.imap = INodeMapFree(@, arg.n)]
            /\ out' = Rep("free_inode", "ok", arg.n)

\* In Spec a map command runs with no file system mounted, or as the first
\* block command on a file system unchanged since its format.
ShellCap == current_fs.mounted => (Fresh(current_fs) /\ log = <<>>)

\* A shell with a freshly formatted file system mounted: newfs f 128 512,
\* then mount f.
AllocInit ==
    LET fs == FsNew("f", MinBlockCount, DefaultBlockSize)
    IN  /\ files = [p \in Paths |-> IF p = "f" THEN Image(fs, FALSE) ELSE NoFile]
        /\ current_fs = fs
        /\ lastEnd = [p \in Paths |-> IF p = "f" THEN "closed" ELSE "none"]
        /\ clash = [p \in Paths |-> FALSE]
        /\ got = {}
        /\ pure = TRUE
        /\ log = <<>>
        /\ out = [NoOut EXCEPT !.cmd = "mount", !.kept = FALSE, !.clean = TRUE,
                               !.prev = "closed", !.judged = TRUE]

----------------------------------------------------------------------------
(* beach/src/shell/expr/args/parse2.rs *)

\* Tokens on a command line.
MaxArgs == 3

\* The largest u8.
U8Max == 255

\* Tokens, as the characters they are made of.
Foobar == <<"f", "o", "o", "b", "a", "r">>
Two == <<"2">>
NotANumber == <<"n", "o", "t", "-", "a", "-", "n", "u", "m", "b", "e", "r">>
Big == <<"3", "0", "0">>
Tokens == {Foobar, Two, NotANumber, Big}

ArgVecs == UNION {SeqsOf(Tokens, n) : n \in 0..MaxArgs}

Digits == <<"0", "1", "2", "3", "4", "5", "6", "7", "8", "9">>
IsDigit(c) == \E i \in 1..10 : Digits[i] = c
DigitVal(c) == (CHOOSE i \in 1..10 : Digits[i] = c) - 1

RECURSIVE DecVal(_)
DecVal(t) ==
    IF t = <<>> THEN 0
    ELSE DecVal(SubSeq(t, 1, Len(t) - 1)) * 10 + DigitVal(t[Len(t)])

\* u8::from_str: decimal digits, at least one, of a value that fits a u8.
u8_from_str(t) ==
    IF t = <<>> \/ \E i \in 1..Len(t) : ~IsDigit(t[i]) THEN [ok |-> FALSE, v |-> 0]
    ELSE IF DecVal(t) > U8Max THEN [ok |-> FALSE, v |-> 0]
    ELSE [ok |-> TRUE, v |-> DecVal(t)]

\* Args::new
ArgsNew(vec) == [ptr |-> 0, vec |-> vec]

\* Args::pop
Pop(a) ==
    IF a.ptr < Len(a.vec)
    THEN [ok |-> TRUE, tok |-> a.vec[a.ptr + 1], args |-> [a EXCEPT !.ptr = @ + 1]]
    ELSE [ok |-> FALSE, tok |-> <<>>, args |-> a]

\* Parsed values: a u8, a String, an Option of one of them.
NatV(n) == <<"u8", n>>
TextV(t) == <<"String", t>>
None == <<"None">>
Some(v) == <<"Some", v>>

\* Result<Arg, Err<E>> of parse_arg, with the Args as parse_arg leaves them.
Ok(v, a) == [ok |-> TRUE, val |-> v, err |-> "", args |-> a]
Fail(e, a) == [ok |-> FALSE, val |-> <<>>, err |-> e, args |-> a]

\* The parsers: Nat, Text, and Optional<A> written "Optional" before A.
NatArg == <<"Nat">>
TextArg == <<"Text">>
Optional(A) == <<"Optional">> \o A
Parsers == {NatArg, TextArg, Optional(NatArg), Optional(TextArg), Optional(Optional(NatArg))}

RECURSIVE parse_arg_NoRestore(_, _)
\* parse_arg as it would be if Optional left ptr where the failed parser put
\* it (no args.ptr = old_ptr).
parse_arg_NoRestore(P, a) ==
    IF Head(P) = "Nat" THEN
        LET p == Pop(a)
        IN  IF ~p.ok THEN Fail("MissingArgument", a)
            ELSE LET n == u8_from_str(p.tok)
                 IN  IF n.ok THEN Ok(NatV(n.v), p.args) ELSE Fail("Other", p.args)
    ELSE IF Head(P) = "Text" THEN
        LET p == Pop(a)
        IN  IF ~p.ok THEN Fail("MissingArgument", a) ELSE Ok(TextV(p.tok), p.args)
    ELSE
        LET r == parse_arg_NoRestore(Tail(P), a)
        IN  IF ~r.ok THEN Ok(None, r.args) ELSE Ok(Some(r.val), r.args)

RECURSIVE parse_arg(_, _)
\* ParseArg::parse_arg of Nat, of Text and of Optional<A>
parse_arg(P, a) ==
    IF Head(P) = "Nat" THEN
        LET p == Pop(a)
        IN  IF ~p.ok THEN Fail("MissingArgument", a)
            ELSE LET n == u8_from_str(p.tok)
                 IN  IF n.ok THEN Ok(NatV(n.v), p.args) ELSE Fail("Other", p.args)
    ELSE IF Head(P) = "Text" THEN
        LET p == Pop(a)
        IN  IF ~p.ok THEN Fail("MissingArgument", a) ELSE Ok(TextV(p.tok), p.args)
    ELSE
        LET old_ptr == a.ptr
            r       == parse_arg(Tail(P), a)
        IN  IF ~r.ok THEN Ok(None, [r.args EXCEPT !.ptr = old_ptr])
            ELSE Ok(Some(r.val), r.args)

RECURSIVE parse(_, _)
\* Parse::parse of HNil and of HCons<H, T>: val is the list of the values.
parse(L, a) ==
    IF L = <<>> THEN Ok(<<>>, a)
    ELSE LET head == parse_arg(Head(L), a)
         IN  IF ~head.ok THEN Fail(head.err, head.args)
             ELSE LET tail == parse(Tail(L), head.args)
                  IN  IF ~tail.ok THEN tail
                      ELSE Ok(<<head.val>> \o tail.val, tail.args)

\* The parser lists: that of tests::parse_many, that of newfs, the empty one.
ParseMany == <<TextArg, NatArg, Optional(NatArg), TextArg>>
ParserLists == {ParseMany, <<TextArg, NatArg, Optional(NatArg)>>, <<>>}

\* History: the parser (parse_arg) or the list (parse) last run, ptr before
\* it, and its result.
NoParse == [op |-> "none", parser |-> <<>>, list |-> <<>>, before |-> 0,
            ok |-> TRUE, val |-> <<>>, err |-> ""]

\* No command line.
ArgsIdle == cur_args = ArgsNew(<<>>) /\ parsed = NoParse

\* Args::new over the tokens of a command line.
ArgsInit == cur_args \in {ArgsNew(vec) : vec \in ArgVecs} /\ parsed = NoParse

\* One parser is run on the Args.
ParseArgStep(P) ==
    LET r == parse_arg(P, cur_args)
    IN  /\ cur_args' = r.args
        /\ parsed' = [op |-> "parse_arg", parser |-> P, list |-> <<>>,
                      before |-> cur_args.ptr,
                      ok |-> r.ok, val |-> r.val, err |-> r.err]

\* A parser list is run on the Args, which it takes by value.
ParseStep(L) ==
    LET r == parse(L, cur_args)
    IN  /\ UNCHANGED cur_args
        /\ parsed' = [op |-> "parse", parser |-> <<>>, list |-> L,
                      before |-> cur_args.ptr,
                      ok |-> r.ok, val |-> r.val, err |-> r.err]

----------------------------------------------------------------------------
(* The specifications *)

\* The state after construction: a Cache over its device, a shell with
\* nothing mounted.
Init == CacheInit /\ ShellInit /\ ArgsIdle

\* The Cache alone.
NextCache ==
    \/ CacheNew /\ UNCHANGED <<shellVars, parseVars>>
    \/ \E b \in BlockNums : \E ioerr \in IoErrs(b) :
          Read(b, ioerr) /\ UNCHANGED <<shellVars, parseVars>>
    \/ \E b \in BlockNums : \E ioerr \in IoErrs(b) :
          ReadPointers(b, ioerr) /\ UNCHANGED <<shellVars, parseVars>>
    \/ \E b \in BlockNums, p \in PtrVecs :
          WritePointers(b, p) /\ UNCHANGED <<shellVars, parseVars>>
    \/ \E h \in handles, i \in MutIdx :
          \E v \in (IF h.kind = "Block" THEN ByteVals ELSE PtrVals) :
            Mutate(h, i, v) /\ UNCHANGED <<shellVars, parseVars>>
    \/ \E order \in Orders(Cached), bad \in Cached \cup {NumBlocks + 1} :
          WriteAll(order, bad) /\ UNCHANGED <<shellVars, parseVars>>
SpecCache == Init /\ [][NextCache]_vars

\* The shell alone.
Next ==
    \/ \E args \in NewFsArgs :
          \E createOk \in (IF args.ok THEN BOOLEAN ELSE {TRUE}) :
            \E closing \in (IF args.ok /\ createOk THEN Closings ELSE {"ok"}) :
              NewFs(args, createOk, closing) /\ UNCHANGED <<cacheVars, parseVars>>
    \/ \E args \in PathArgs :
          \E io \in (IF args.ok THEN {"ok", "open_fails", "read_fails"} ELSE {"ok"}) :
            Mount(args, io) /\ UNCHANGED <<cacheVars, parseVars>>
    \/ \E closing \in (IF current_fs.mounted THEN Closings ELSE {"ok"}) :
          Unmount(closing) /\ UNCHANGED <<cacheVars, parseVars>>
    \/ ShellCap /\ BlockMapCmd /\ UNCHANGED <<cacheVars, parseVars>>
    \/ ShellCap /\ AllocBlock /\ UNCHANGED <<cacheVars, parseVars>>
    \/ \E arg \in NumArgs(FreeBlockNums) :
          ShellCap /\ FreeBlock(arg) /\ UNCHANGED <<cacheVars, parseVars>>
    \/ ShellCap /\ INodeMapCmd /\ UNCHANGED <<cacheVars, parseVars>>
    \/ \E arg \in NumArgs(INodeFlagVals) :
          ShellCap /\ AllocInode(arg) /\ UNCHANGED <<cacheVars, parseVars>>
    \/ \E arg \in NumArgs(INodes) :
          ShellCap /\ FreeInode(arg) /\ UNCHANGED <<cacheVars, parseVars>>
Spec == Init /\ [][Next]_vars

\* The map commands alone, from newfs f 128 512 and mount f.
InitAlloc == CacheInit /\ AllocInit /\ ArgsIdle
NextAlloc ==
    \/ BlockMapCmd /\ UNCHANGED <<cacheVars, parseVars>>
    \/ AllocBlock /\ UNCHANGED <<cacheVars, parseVars>>
    \/ \E arg \in NumArgs(FreeBlockNums) : FreeBlock(arg) /\ UNCHANGED <<cacheVars, parseVars>>
    \/ INodeMapCmd /\ UNCHANGED <<cacheVars, parseVars>>
    \/ \E arg \in NumArgs(INodeFlagVals) : AllocInode(arg) /\ UNCHANGED <<cacheVars, parseVars>>
    \/ \E arg \in NumArgs(INodes) : FreeInode(arg) /\ UNCHANGED <<cacheVars, parseVars>>
SpecAlloc == InitAlloc /\ [][NextAlloc]_vars

\* The argument parsers alone, over every command line of up to MaxArgs tokens.
InitParse == CacheInit /\ ShellInit /\ ArgsInit
NextParse ==
    \/ \E P \in Parsers : ParseArgStep(P) /\ UNCHANGED <<cacheVars, shellVars>>
    \/ \E L \in ParserLists : ParseStep(L) /\ UNCHANGED <<cacheVars, shellVars>>
SpecParse == InitParse /\ [][NextParse]_vars

----------------------------------------------------------------------------
(* Properties of the cache *)

\* The byte image of the buffer a handle points at.
HandleBytes(h) ==
    IF h.kind = "Block" THEN heap[h.buf] ELSE to_u8(endian, heap[h.buf])

\* A handle obtained since the last write_pointers on its block.
Current(h) == h.epoch = epoch[h.block]

\* C1: read of a block cached as Pointers, and read_pointers of a block cached
\* as Block, return CacheInvalid and leave the entry map, the buffers and the
\* device as they were.
C1_TypeMismatchRejected ==
    /\ (last.op = "read" /\ last.pre = "Pointers")
          => (last.res = "CacheInvalid" /\ last.kept /\ last.touched = {})
    /\ (last.op = "read_pointers" /\ last.pre = "Block")
          => (last.res = "CacheInvalid" /\ last.kept /\ last.touched = {})

C1_Witness ==
    /\ last.op = "read" /\ last.pre = "Pointers" /\ last.res = "CacheInvalid"
    /\ entries[last.block].tag = "Pointers"

\* C3: a pointer vector of one block, written by write_pointers and put on the
\* device by write_all, is what read_pointers returns when it loads the block
\* from the device into a cache that does not hold it: same length, same
\* elements.
C3_PointersRoundTrip ==
    (/\ last.op = "read_pointers" /\ last.pre = "Vacant" /\ last.res = "Ok"
     /\ flushed[last.block] # NoPointers)
        => /\ entries[last.block].tag = "Pointers"
           /\ heap[entries[last.block].buf] = flushed[last.block][1]

C3_Witness ==
    /\ last.op = "read_pointers" /\ last.pre = "Vacant" /\ last.res = "Ok"
    /\ flushed[last.block] = <<[i \in 1..PtrsPerBlock |-> 256 + i]>>
    /\ heap[entries[last.block].buf] = [i \in 1..PtrsPerBlock |-> 256 + i]

\* C4: the handles obtained for a block with no write_pointers on it in
\* between point at one buffer, the one the entry holds (so the one every later
\* read returns), and what write_all puts on the device for the block is the
\* byte image of that buffer, stores made through the handles included.
C4_HandlesAlias ==
    /\ \A h1, h2 \in handles :
          (h1.block = h2.block /\ h1.epoch = h2.epoch) => h1.buf = h2.buf
    /\ \A h \in handles :
          Current(h) => /\ entries[h.block].buf = h.buf
                        /\ entries[h.block].tag = h.kind
    /\ \A h \in handles :
          (last.op = "write_all" /\ Current(h) /\ h.block \in last.written)
              => device[h.block] = HandleBytes(h)

C4_Witness ==
    \E h \in handles :
        /\ last.op = "write_all" /\ h.block \in last.written
        /\ h.kind = "Block" /\ Current(h)
        /\ heap[h.buf][1] \in ByteVals
        /\ device[h.block] = heap[h.buf]

\* C10: write_all returns Ok only when every cached entry was written, the
\* device then holding each entry's byte image; when a write fails it returns
\* the error with that entry unwritten, and the device blocks it changed are
\* among those whose write succeeded.
C10_WriteAllNoSilentSkip ==
    last.op = "write_all" =>
        /\ last.res = "Ok" =>
              /\ last.written = Cached
              /\ \A b \in Cached :
                    InRange(b) /\ device[b] = EntryBytes(endian, heap, entries[b])
        /\ last.res # "Ok" =>
              /\ last.res = "DeviceError"
              /\ last.written # Cached
        /\ last.written \subseteq Cached
        /\ last.touched \subseteq last.written
        /\ \A b \in last.written : device[b] = EntryBytes(endian, heap, entries[b])

C10_Witness ==
    /\ last.op = "write_all" /\ last.res = "DeviceError"
    /\ last.written # {} /\ last.touched # {}
    /\ Cardinality(Cached) > Cardinality(last.written)

\* C11 as stated: the byte image of every cache entry is as long as one block
\* of the device.
C11_EntryIsOneBlock ==
    \A b \in Cached : Len(EntryBytes(endian, heap, entries[b])) = BlockSize

\* An entry installed by write_pointers with a vector shorter than a block.
C11_Witness ==
    /\ last.op = "write_pointers"
    /\ entries[last.block].tag = "Pointers"
    /\ Len(heap[entries[last.block].buf]) < PtrsPerBlock

\* C12: write_pointers succeeds and leaves the block cached as Pointers over
\* the vector it was given, whatever was cached there before, and changes no
\* other entry; the variant of an entry of a Cache changes at no other step,
\* so a block cached as Pointers stays cached as Pointers.
C12_Step ==
    /\ last'.op = "write_pointers" =>
          /\ last'.res = "Ok"
          /\ entries'[last'.block].tag = "Pointers"
          /\ last'.arg = <<heap'[entries'[last'.block].buf]>>
          /\ \A b \in BlockNums \ {last'.block} : entries'[b] = entries[b]
    /\ \A b \in Cached :
          entries'[b].tag # entries[b].tag =>
              \/ last'.op = "write_pointers" /\ last'.block = b
              \/ last'.op = "new"
    /\ \A b \in Cached :
          (entries[b].tag = "Pointers" /\ last'.op # "new") =>
              entries'[b].tag = "Pointers"
C12_WritePointersRetags == [][C12_Step]_vars

\* write_pointers on a block cached as Block.
C12_Witness ==
    /\ last.op = "write_pointers" /\ last.pre = "Block" /\ last.res = "Ok"
    /\ entries[last.block].tag = "Pointers"
    /\ last.arg = <<heap[entries[last.block].buf]>>

\* C16: the device changes only in write_all steps, and no step of a Cache,
\* write_all included, takes a block number out of its entry map.
C16_Step ==
    /\ device' # device => last'.op = "write_all"
    /\ last'.op \in {"read", "read_pointers", "write_pointers", "mutate"} =>
          last'.touched = {}
    /\ last'.op # "new" => Cached \subseteq Cached'
C16_WriteBackNoEvict == [][C16_Step]_vars

\* A store through a handle has put the cached block ahead of the device.
C16_Witness ==
    \E h \in handles :
        /\ last.op = "mutate" /\ last.block = h.block /\ InRange(h.block)
        /\ Current(h) /\ h.kind = "Block"
        /\ heap[h.buf][1] \in ByteVals
        /\ device[h.block] = Zeros(BlockSize)
        /\ device[h.block] # EntryBytes(endian, heap, entries[h.block])

\* A handle obtained before the last write_pointers on its block.
Stale(h) == ~Current(h)

\* C17: a handle obtained for a block before a write_pointers on it points at
\* another buffer than the entry and than every handle obtained since; a
\* store through it changes neither, and what write_all writes for the block
\* is the byte image of the entry's buffer, not of the stale one.
C17_Apart ==
    /\ \A h \in handles : Stale(h) => h.buf # entries[h.block].buf
    /\ \A h1, h2 \in handles :
          (h1.block = h2.block /\ Stale(h1) /\ Current(h2)) => h1.buf # h2.buf
    /\ \A h \in handles :
          (last.op = "write_all" /\ Stale(h) /\ h.block \in last.written) =>
              device[h.block] = EntryBytes(endian, heap, entries[h.block])
C17_Step ==
    \A h \in handles :
        (Stale(h) /\ last'.op = "mutate" /\ heap'[h.buf] # heap[h.buf]) =>
            /\ entries' = entries
            /\ heap'[entries[h.block].buf] = heap[entries[h.block].buf]
            /\ \A h2 \in handles : Current(h2) => heap'[h2.buf] = heap[h2.buf]
C17_StaleHandles == [][C17_Step]_vars /\ []C17_Apart

\* A store through a handle obtained before write_pointers, with a handle
\* obtained after it in hand: the new vector is as it was written.
C17_Witness ==
    \E h1, h2 \in handles :
        /\ last.op = "mutate" /\ last.block = h1.block /\ h2.block = h1.block
        /\ Stale(h1) /\ h1.kind = "Pointers" /\ heap[h1.buf][1] \in PtrVals
        /\ Current(h2) /\ h2.buf = entries[h2.block].buf
        /\ heap[h2.buf] \in PtrVecs

\* C18: a read or read_pointers that misses and whose device read fails
\* returns the device error and leaves the entry map and the buffers as they
\* were, the block still not cached and no handle given out for it; a device
\* error is returned on a miss only, and a read that misses and succeeds
\* returns what the device holds.
C18_FailedMissInsertsNothing ==
    /\ (last.op \in {"read", "read_pointers"} /\ last.res = "DeviceError") =>
          /\ last.pre = "Vacant"
          /\ last.kept
          /\ last.touched = {}
          /\ entries[last.block].tag = "Vacant"
          /\ \A h \in handles : h.block # last.block
    /\ (last.op = "read" /\ last.pre = "Vacant" /\ last.res = "Ok") =>
          heap[entries[last.block].buf] = device[last.block]

\* A read of the first block number past the end of the device.
C18_Witness ==
    /\ last.op = "read" /\ last.res = "DeviceError"
    /\ last.block = NumBlocks /\ ~InRange(last.block)
    /\ entries[last.block].tag = "Vacant"

----------------------------------------------------------------------------
(* Properties of the shell and the file system behind it *)

MapCmds == {"block_map", "alloc_block", "free_block",
            "inode_map", "alloc_inode", "free_inode"}
Mounted(o) == o.cmd = "mount" /\ o.res \in {"ok", "warning"}
Allocated(o) == o.cmd = "alloc_block" /\ o.res = "ok"
FreeBlocks(fs) == (0..(fs.block_count - 1)) \ fs.bmap
FreeINodes(fs) == {i \in DOMAIN fs.imap : ~fs.imap[i].used}

\* C2: over sessions that follow one another on one disk image, a mount
\* reports clean_mount = TRUE exactly when the session before it on that
\* image ended with a successful close; the shell warns exactly when
\* clean_mount is FALSE.
C2_CleanMountIffClosed ==
    (Mounted(out) /\ out.judged) =>
        /\ out.clean <=> (out.prev = "closed")
        /\ (out.res = "warning") <=> ~out.clean

\* A mount after a session that was dropped, or whose close failed.
C2_Witness ==
    /\ Mounted(out) /\ out.judged
    /\ out.prev = "notclosed" /\ ~out.clean /\ out.res = "warning"

\* C5: on a freshly formatted map, with no free in between, alloc_block
\* never returns a number it returned before, and never one of the reserved
\* region.
C5_AllocUnique ==
    (Allocated(out) /\ pure) =>
        /\ ~out.dup
        /\ out.n \in got
        /\ got \cap Reserved(current_fs.block_count, current_fs.block_size) = {}
        /\ got \subseteq current_fs.bmap

\* Three blocks allocated in a row from the format.
C5_Witness == Allocated(out) /\ pure /\ Cardinality(got) >= 3

\* C6: alloc returns the lowest slot clear at the call and sets it (with the
\* flags, for an inode); on 128 blocks of 512 bytes three allocations return
\* the first unreserved numbers in ascending order, and once the second is
\* freed the next allocation returns it.
C6_Scenario ==
    /\ (Len(log) >= 3 /\ \A i \in 1..3 : log[i][1] = "alloc") =>
          \A i \in 1..3 :
            log[i][2] = FirstData(MinBlockCount, DefaultBlockSize) + i - 1
    /\ (/\ Len(log) >= 5
        /\ \A i \in {1, 2, 3, 5} : log[i][1] = "alloc"
        /\ log[4] = <<"free", log[2][2]>>) => log[5][2] = log[2][2]
C6_AllocStep ==
    /\ (out'.cmd = "alloc_block" /\ out'.res = "ok") =>
          /\ FreeBlocks(current_fs) # {}
          /\ out'.n = Min(FreeBlocks(current_fs))
          /\ current_fs' = [current_fs EXCEPT !.bmap = @ \cup {out'.n}]
    /\ (out'.cmd = "alloc_inode" /\ out'.res = "ok") =>
          /\ FreeINodes(current_fs) # {}
          /\ out'.n = Min(FreeINodes(current_fs))
          /\ \E flags \in INodeFlagVals :
                current_fs' = [current_fs EXCEPT !.imap[out'.n] =
                                  [used |-> TRUE, flags |-> flags]]
C6_AllocLowestFree == [][C6_AllocStep]_vars /\ [](log # Overflow => C6_Scenario)

\* The scenario, run to its end.
C6_Witness ==
    /\ log # Overflow /\ Len(log) = 5
    /\ \A i \in {1, 2, 3, 5} : log[i][1] = "alloc"
    /\ log[4] = <<"free", log[2][2]>>
    /\ current_fs.block_count = 128 /\ current_fs.block_size = 512

\* C7: freeing a slot that is free already reports no error and changes
\* nothing, in either map; freeing an inode clears its bit and its flags and
\* nothing else.
C7_FreeStep ==
    /\ (out'.cmd = "free_block" /\ out'.res = "ok"
            /\ out'.n \in FreeBlocks(current_fs)) =>
          (current_fs' = current_fs /\ files' = files)
    /\ (out'.cmd = "free_block" /\ out'.parsed /\ out'.had) => out'.res = "ok"
    /\ (out'.cmd = "free_inode" /\ out'.res = "ok"
            /\ out'.n \in FreeINodes(current_fs)) =>
          (current_fs' = current_fs /\ files' = files)
    /\ (out'.cmd = "free_inode" /\ out'.parsed /\ out'.had) =>
          /\ out'.res = "ok"
          /\ current_fs' = [current_fs EXCEPT !.imap[out'.n] = FreeSlot]
          /\ INodeMapFree(current_fs'.imap, out'.n) = current_fs'.imap
    /\ (out'.cmd = "free_block" /\ out'.res = "ok") =>
          BlockMapFree(current_fs'.bmap, out'.n) = current_fs'.bmap
C7_FreeIdempotent == [][C7_FreeStep]_vars

\* An inode freed twice: the second free left a map that holds blocks and
\* inodes as it was.
C7_Witness ==
    /\ out.cmd = "free_inode" /\ out.res = "ok" /\ out.kept
    /\ ~current_fs.imap[out.n].used
    /\ \E i \in INodes : current_fs.imap[i].used

\* C8: with every block of a 128-block map allocated, alloc_block reports
\* Exhausted, returns no number and leaves the map as it is; with every inode
\* slot taken, alloc_inode reports that no room is left and leaves the map as
\* it is.
C8_Exhausted ==
    /\ (out.cmd = "alloc_block" /\ out.full) =>
          (out.res = "exhausted" /\ out.kept /\ ~out.dup)
    /\ (out.cmd = "alloc_block" /\ out.res = "exhausted") => out.full
    /\ (out.cmd = "alloc_inode" /\ out.full) =>
          (out.res = "exhausted" /\ out.kept)
    /\ (out.cmd = "alloc_inode" /\ out.res = "exhausted") => out.full

\* alloc_block on a full map of 128 blocks.
C8_Witness ==
    /\ out.cmd = "alloc_block" /\ out.full /\ out.res = "exhausted"
    /\ current_fs.block_count = 128
    /\ current_fs.bmap = 0..127

\* C9 as stated: with no file system mounted, every map command and unmount
\* reports NO_MOUNT_MSG and changes nothing.
C9_AsStated ==
    /\ (out.cmd = "unmount" /\ out.had) => ~current_fs.mounted
    /\ (out.cmd \in MapCmds \cup {"unmount"} /\ ~out.had) =>
          (out.res = "nofs" /\ out.kept)

\* C9: unmount leaves no file system mounted, whether close succeeds or not;
\* from then on, until a mount succeeds, a map command or unmount changes
\* nothing, and reports NO_MOUNT_MSG if its arguments parse and the argument
\* error if they do not.
C9_NoFsAfterUnmount ==
    /\ (out.cmd = "unmount" /\ out.had) => ~current_fs.mounted
    /\ (~out.had /\ ~Mounted(out)) => ~current_fs.mounted
    /\ (out.cmd \in MapCmds \cup {"unmount"} /\ ~out.had) =>
          /\ out.kept
          /\ out.parsed => out.res = "nofs"
          /\ ~out.parsed => out.res = "usage"

\* A command after an unmount whose close failed.
C9_Witness ==
    /\ out.cmd = "free_block" /\ ~out.had /\ out.parsed /\ out.res = "nofs"
    /\ \E p \in Paths :
          /\ lastEnd[p] = "notclosed"
          /\ files[p].kind = "fs"
          /\ ~Fresh(files[p])

\* C13 as stated: under alloc_block and free_block with any arguments the
\* blocks reserved by the format stay allocated in the BlockMap, and
\* alloc_block returns none of them.
C13_ReservedStayAllocated ==
    current_fs.mounted =>
        /\ Reserved(current_fs.block_count, current_fs.block_size)
              \subseteq current_fs.bmap
        /\ Allocated(out) =>
              out.n \notin Reserved(current_fs.block_count, current_fs.block_size)

\* alloc_block hands out the superblock's number after free_block 0.
C13_Witness ==
    /\ Allocated(out) /\ out.n = 0
    /\ 0 \in Reserved(current_fs.block_count, current_fs.block_size)

\* C14 as stated: a newfs with a block size or a block count below 128 is
\* rejected with an error and writes nothing: the file at the path is as it
\* was before the command.
C14_RejectedNoWrite ==
    (out.cmd = "newfs" /\ out.res = "rejected") => out.kept

\* A file system image that a rejected newfs has replaced by an empty device.
C14_Witness ==
    /\ out.cmd = "newfs" /\ out.res = "rejected" /\ ~out.kept
    /\ \E p \in Paths : files[p].kind = "blank" /\ lastEnd[p] = "closed"

\* C15 as stated: no file system is formatted or read on a backing file while
\* a live FileSystem is mounted on that file.
C15_OneFsPerFile == \A p \in Paths : ~clash[p]

\* newfs has formatted the file under the mounted file system.
C15_Witness ==
    \E p \in Paths :
        /\ MountedOn(p) /\ clash[p]
        /\ out.cmd = "newfs" /\ out.res = "ok" /\ ~out.kept
        /\ files[p].kind = "fs" /\ files[p].clean

\* C19: a mount that fails leaves the mounted file system and the files as
\* they were; a mount that succeeds while a file system is mounted takes its
\* place without closing it: nothing of its maps goes to its file, no clean
\* marker is written there, and its session ends not closed.
C19_Step ==
    /\ (out'.cmd = "mount" /\ out'.res \in {"error", "usage"}) =>
          (current_fs' = current_fs /\ files' = files /\ out'.kept)
    /\ (Mounted(out') /\ current_fs.mounted) =>
          LET old == current_fs.path
          IN  /\ current_fs'.mounted /\ out'.had
              /\ files'[old].kind = files[old].kind
              /\ files'[old].bmap = files[old].bmap
              /\ files'[old].imap = files[old].imap
              /\ files'[old].clean => files[old].clean
              /\ old # current_fs'.path => files'[old] = files[old]
              /\ lastEnd'[old] = "notclosed"
C19_MountReplaces == [][C19_Step]_vars

\* A mount has taken the place of a file system with an allocation that its
\* file does not hold.
C19_Witness ==
    /\ Mounted(out) /\ out.had /\ out.lost
    /\ \E q \in Paths :
          /\ q # current_fs.path
          /\ lastEnd[q] = "notclosed"
          /\ files[q].kind = "fs" /\ Fresh(files[q]) /\ ~files[q].clean

----------------------------------------------------------------------------
(* Properties of the argument parsers *)

\* An Optional<A> parser was the last one run.
OptionalRan == parsed.op = "parse_arg" /\ Head(parsed.parser) = "Optional"

\* The Args as they were before the last parser ran.
ArgsBefore == [cur_args EXCEPT !.ptr = parsed.before]

\* C20 as stated, for every A: Optional<A> never fails; it yields Some and
\* leaves the position one further, or yields None and leaves the position
\* where it was; a missing token yields None.
C20_AsStated ==
    OptionalRan =>
        /\ parsed.ok
        /\ \/ Head(parsed.val) = "Some" /\ cur_args.ptr = parsed.before + 1
           \/ parsed.val = None /\ cur_args.ptr = parsed.before
        /\ parsed.before >= Len(cur_args.vec) => parsed.val = None

\* C20: parsing an Optional<A> argument never fails.  When A::parse_arg
\* succeeds with a value, Optional<A> yields Some(value) and leaves the
\* position where A left it, which is one further when A is Nat or Text;
\* when A::parse_arg fails, on a missing token or on one it rejects,
\* Optional<A> yields None and puts the position back where it was, so that
\* the next parser sees the same token.  Optional<Nat> yields None exactly
\* when the token is missing or is not a decimal u8.  The tokens foobar, 2,
\* not-a-number parsed as Text, Nat, Optional<Nat>, Text give
\* ("foobar", 2, None, "not-a-number").
C20_OptionalNeverFails ==
    /\ OptionalRan =>
        LET A == Tail(parsed.parser)
            r == parse_arg(A, ArgsBefore)
            here == parsed.before < Len(cur_args.vec)
        IN  /\ parsed.ok
            /\ cur_args.vec = ArgsBefore.vec
            /\ r.ok => parsed.val = Some(r.val) /\ cur_args.ptr = r.args.ptr
            /\ (r.ok /\ A \in {NatArg, TextArg}) =>
                   cur_args.ptr = parsed.before + 1
            /\ ~r.ok => /\ parsed.val = None
                        /\ cur_args.ptr = parsed.before
                        /\ here => Pop(cur_args).tok = cur_args.vec[parsed.before + 1]
            /\ A = NatArg =>
                   (parsed.val = None <=>
                        (~here \/ ~u8_from_str(cur_args.vec[parsed.before + 1]).ok))
            /\ A = TextArg => (parsed.val = None <=> ~here)
    /\ ( /\ parsed.op = "parse"
         /\ parsed.list = ParseMany
         /\ cur_args = ArgsNew(<<Foobar, Two, NotANumber>>) ) =>
        /\ parsed.ok
        /\ parsed.val = <<TextV(Foobar), NatV(2), None, TextV(NotANumber)>>

\* Optional<Nat> met a token that is not a number, yielded None and left the
\* position on that token.
C20_Witness ==
    /\ OptionalRan
    /\ parsed.parser = Optional(NatArg)
    /\ parsed.before < Len(cur_args.vec)
    /\ cur_args.vec[parsed.before + 1] = NotANumber
    /\ parsed.val = None
    /\ cur_args.ptr = parsed.before

====
